---- MODULE Spec2Model ----
(***************************************************************************)
(* WishesService (src/src/wishes/wishes.service.ts) over a record store.   *)
(*                                                                         *)
(* The service keeps no state of its own: the shared state is the wish     *)
(* table behind wishRepository.  Every call runs as its own task; each     *)
(* `await` on the store is one atomic step of the task, and the code       *)
(* between two awaits runs together with the await that precedes it.       *)
(***************************************************************************)
EXTENDS Integers, FiniteSets, Sequences, TLC

\* ---------------------------------------------------------------- bounds
MaxCalls == 3          \* calls started in one behaviour
MaxWishes == 3         \* ids the store hands out (1..MaxWishes)

Tasks == {1, 2}        \* concurrent request handlers
Users == {1, 2}        \* user ids
WishIds == 1..MaxWishes
Amounts == {0, 20}     \* raisedAmount arguments of updateRaised

NULL == [null |-> TRUE]            \* findOne / findOneBy found nothing

\* -------------------------------------------------------------- the table
\* Columns of a wish row that this service reads or writes.  createdAt and
\* updatedAt (set by the store) and offers (rows of the offers table) are
\* never written by the service and are stripped by copy: they are left out.
WishFields == {"id", "owner", "title", "description", "link", "image",
               "price", "raised", "copied"}

\* Column defaults the store applies to a column that save() is not given.
ColumnDefault(f) == IF f \in {"raised", "copied"} THEN 0 ELSE NULL

\* CreateWishDto payloads handed to create().
CreateDtos ==
  { [title |-> "t2", description |-> "d2", link |-> "l2", image |-> "i2", price |-> 150] }

\* UpdateWishDto payloads handed to update(): any subset of the creation
\* fields; a field that is absent from the record is `undefined`.
UpdateDtos ==
  { [price |-> 100], [price |-> 150],
    [title |-> "t3", description |-> "d3", link |-> "l3", image |-> "i3"] }

NoDto == [none |-> TRUE]

\* Repository.findOne({where: {id}}) / findOneBy({id})
findOne(s, id) == s[id]

\* Repository.update(id, partial): sets the given columns of the row with
\* that id; a missing row is not an error (zero rows affected).
RepoUpdate(s, id, partial) ==
  IF s[id] = NULL THEN s
  ELSE [s EXCEPT ![id] = [f \in WishFields |->
                            IF f \in DOMAIN partial THEN partial[f] ELSE @[f]]]

\* Repository.delete(id)
RepoDelete(s, id) == [s EXCEPT ![id] = NULL]

\* Repository.save(entity) of an entity without id: inserts a row under the
\* next generated id, columns not given take their defaults.
RepoSave(s, nid, entity) ==
  [s EXCEPT ![nid] = [f \in WishFields |->
                        IF f = "id" THEN nid
                        ELSE IF f \in DOMAIN entity THEN entity[f]
                        ELSE ColumnDefault(f)]]

\* { ...createWishDto, owner: user }
WithOwner(dto, user) ==
  [f \in DOMAIN dto \cup {"owner"} |-> IF f = "owner" THEN user ELSE dto[f]]

\* ------------------------------------------------------- update's checks
\* Variant: any price in the patch counts as a change, equal or not.
isPriceChanged_NoCompare(dto, wish) == "price" \in DOMAIN dto

\* updateWishDto.price !== undefined && updateWishDto.price !== wish.price
isPriceChanged(dto, wish) ==
  "price" \in DOMAIN dto /\ dto.price # wish.price

hasContributions(wish) == wish.raised > 0

\* Variant: the price lock is checked before the ownership.
UpdateCheck_LockFirst(wish, dto, userId) ==
  IF wish = NULL THEN "NotFound"
  ELSE IF isPriceChanged(dto, wish) /\ hasContributions(wish) THEN "CannotChangePrice"
  ELSE IF wish.owner # userId THEN "NotOwner"
  ELSE "pass"

\* The outcome of update's checks on the row it loaded: an error kind, or
\* "pass" when the write goes ahead.
UpdateCheck(wish, dto, userId) ==
  IF wish = NULL THEN "NotFound"
  ELSE IF wish.owner # userId THEN "NotOwner"
  ELSE IF isPriceChanged(dto, wish) /\ hasContributions(wish) THEN "CannotChangePrice"
  ELSE "pass"

\* The outcome of remove's checks on the row it loaded.
RemoveCheck(wish, userId) ==
  IF wish = NULL THEN "NotFound"
  ELSE IF wish.owner # userId THEN "NotOwner"
  ELSE "pass"

\* ------------------------------------------------------------- copy's data
\* const {id, createdAt, updatedAt, copied, owner, offers, raised, ...wishData}
StrippedFields == {"id", "copied", "owner", "raised"}

\* Variant: raised is not stripped and is carried into the new wish.
WishData_KeepsRaised(wish) == [f \in DOMAIN wish \ {"id", "copied", "owner"} |-> wish[f]]

WishData(wish) == [f \in DOMAIN wish \ StrippedFields |-> wish[f]]

\* { copied: copied + 1 }
CopiedPatch(copied) == [copied |-> copied + 1]

\* { raised: raisedAmount }
RaisedPatch(raisedAmount) == [raised |-> raisedAmount]

\* Variant: the re-read row is returned without the NotFound check.
RaisedOutcome_NoCheck(updatedWish) == "ok"

\* updateRaised: if (!updatedWish) throw NotFound; return updatedWish.toJSON()
RaisedOutcome(updatedWish) == IF updatedWish = NULL THEN "NotFound" ELSE "ok"

\* update: if (!updatedWish) throw NotFound; return updatedWish.toJSON()
UpdateOutcome(updatedWish) == IF updatedWish = NULL THEN "NotFound" ELSE "ok"

\* ------------------------------------------------------------------ state
VARIABLES
  store,      \* the wish table: id -> row or NULL
  nextId,     \* the next id the store generates
  pc,         \* task -> the await it is suspended on, "idle" or "done"
  call,       \* task -> the call it runs and its arguments
  local,      \* task -> the call's local variables
  result,     \* task -> how the call ended ("ok" or an error kind)
  qr,         \* task -> copy's query runner
  pre,        \* task -> the table when its call started, kept while no other
              \* call is in flight; NoSnapshot otherwise (history)
  copyOk,     \* wish id -> copy calls on it that returned (history)
  calls,      \* calls started so far
  overlap     \* whether a call may start while another is in flight

vars == <<store, nextId, pc, call, local, result, qr, pre, copyOk, calls, overlap>>

NoCall == [op |-> "none", wishId |-> 0, user |-> 0, dto |-> NoDto, amount |-> 0]
NoLocal == [copied |-> 0, data |-> NoDto, newId |-> 0, err |-> "none",
            sawAbsent |-> FALSE]
NoQr == [created |-> FALSE, active |-> FALSE, released |-> 0]
EmptyStore == [i \in WishIds |-> NULL]
NoSnapshot == [snapshot |-> FALSE]

\* The table the service is started on: one wish of user 1, created through
\* create() and not yet contributed to or copied.
InitStore ==
  RepoSave(EmptyStore, 1,
           [owner |-> 1, title |-> "t1", description |-> "d1", link |-> "l1",
            image |-> "i1", price |-> 100])

Start ==
  /\ store = InitStore
  /\ nextId = 2
  /\ pc = [p \in Tasks |-> "idle"]
  /\ call = [p \in Tasks |-> NoCall]
  /\ local = [p \in Tasks |-> NoLocal]
  /\ result = [p \in Tasks |-> "none"]
  /\ qr = [p \in Tasks |-> NoQr]
  /\ pre = [p \in Tasks |-> NoSnapshot]
  /\ copyOk = [i \in WishIds |-> 0]
  /\ calls = 0

\* Calls run concurrently, as the request handlers of the service do.
Init == Start /\ overlap = TRUE

\* Calls run one at a time, all on one task: every call runs without
\* interference.
SeqInit == Start /\ overlap = FALSE

\* No other task is in a call or holds an outcome.
Alone(p) == \A q \in Tasks \ {p} : pc[q] = "idle"

\* The task that runs the calls when they do not overlap.
Sequencer == CHOOSE p \in Tasks : \A q \in Tasks : p <= q

\* The store can still generate an id; when it cannot, save() fails.
CanInsert == nextId <= MaxWishes

\* Ids a call is made with: every id the store has handed out, and one it
\* has not (all ids never handed out behave alike).
KnownIds == {i \in WishIds : i <= nextId}

\* A task takes up a call: args are the call's arguments, at is its first await.
Begin(p, args, at) ==
  /\ pc[p] = "idle"
  /\ overlap \/ p = Sequencer
  /\ calls < MaxCalls
  /\ calls' = calls + 1
  /\ pc' = [pc EXCEPT ![p] = at]
  /\ call' = [call EXCEPT ![p] = args]
  /\ pre' = [q \in Tasks |->
               IF q = p /\ Alone(p) THEN store ELSE NoSnapshot]
  /\ UNCHANGED <<store, nextId, local, result, qr, copyOk, overlap>>

\* The call returns or throws: the task ends with outcome r.
Finish(p, r) ==
  /\ pc' = [pc EXCEPT ![p] = "done"]
  /\ result' = [result EXCEPT ![p] = r]

\* ----------------------------------------------------------------- create
StartCreate(p) ==
  \E dto \in CreateDtos, u \in Users :
    Begin(p, [NoCall EXCEPT !.op = "create", !.dto = dto, !.user = u], "create_save")

\* return this.wishRepository.save({ ...createWishDto, owner: user })
\* A store failure is not caught: it reaches the caller.
CreateSave(p) ==
  /\ pc[p] = "create_save"
  /\ \/ /\ CanInsert
        /\ store' = RepoSave(store, nextId, WithOwner(call[p].dto, call[p].user))
        /\ nextId' = nextId + 1
        /\ Finish(p, "ok")
     \/ /\ Finish(p, "StoreError")
        /\ UNCHANGED <<store, nextId>>
  /\ UNCHANGED <<call, local, qr, pre, copyOk, calls, overlap>>

\* ----------------------------------------------------------------- update
StartUpdate(p) ==
  \E w \in KnownIds, dto \in UpdateDtos, u \in Users :
    Begin(p, [NoCall EXCEPT !.op = "update", !.wishId = w, !.dto = dto, !.user = u],
          "update_find")

\* findOne, then the NotFound / NotOwner / CannotChangePrice checks
UpdateFind(p) ==
  /\ pc[p] = "update_find"
  /\ LET chk == UpdateCheck(findOne(store, call[p].wishId), call[p].dto, call[p].user) IN
       IF chk = "pass"
       THEN pc' = [pc EXCEPT ![p] = "update_write"] /\ UNCHANGED result
       ELSE Finish(p, chk)
  /\ UNCHANGED <<store, nextId, call, local, qr, pre, copyOk, calls, overlap>>

\* await this.wishRepository.update(wishId, updateWishDto)
UpdateWrite(p) ==
  /\ pc[p] = "update_write"
  /\ store' = RepoUpdate(store, call[p].wishId, call[p].dto)
  /\ pc' = [pc EXCEPT ![p] = "update_reread"]
  /\ UNCHANGED <<nextId, call, local, result, qr, pre, copyOk, calls, overlap>>

\* findOneBy, then the defensive NotFound check
UpdateReread(p) ==
  /\ pc[p] = "update_reread"
  /\ Finish(p, UpdateOutcome(findOne(store, call[p].wishId)))
  /\ UNCHANGED <<store, nextId, call, local, qr, pre, copyOk, calls, overlap>>

\* ----------------------------------------------------------------- remove
StartRemove(p) ==
  \E w \in KnownIds, u \in Users :
    Begin(p, [NoCall EXCEPT !.op = "remove", !.wishId = w, !.user = u], "remove_find")

RemoveFind(p) ==
  /\ pc[p] = "remove_find"
  /\ LET chk == RemoveCheck(findOne(store, call[p].wishId), call[p].user) IN
       IF chk = "pass"
       THEN pc' = [pc EXCEPT ![p] = "remove_delete"] /\ UNCHANGED result
       ELSE Finish(p, chk)
  /\ UNCHANGED <<store, nextId, call, local, qr, pre, copyOk, calls, overlap>>

\* await this.wishRepository.delete(wishId); return wish.toJSON()
RemoveDelete(p) ==
  /\ pc[p] = "remove_delete"
  /\ store' = RepoDelete(store, call[p].wishId)
  /\ Finish(p, "ok")
  /\ UNCHANGED <<nextId, call, local, qr, pre, copyOk, calls, overlap>>

\* ------------------------------------------------------------ updateRaised
StartUpdateRaised(p) ==
  \E w \in KnownIds, a \in Amounts :
    Begin(p, [NoCall EXCEPT !.op = "updateRaised", !.wishId = w, !.amount = a],
          "raised_write")

\* await this.wishRepository.update(id, { raised: raisedAmount })
RaisedWrite(p) ==
  /\ pc[p] = "raised_write"
  /\ store' = RepoUpdate(store, call[p].wishId, RaisedPatch(call[p].amount))
  /\ pc' = [pc EXCEPT ![p] = "raised_reread"]
  /\ UNCHANGED <<nextId, call, local, result, qr, pre, copyOk, calls, overlap>>

RaisedReread(p) ==
  /\ pc[p] = "raised_reread"
  /\ Finish(p, RaisedOutcome(findOne(store, call[p].wishId)))
  /\ UNCHANGED <<store, nextId, call, local, qr, pre, copyOk, calls, overlap>>

\* ------------------------------------------------------------------- copy
StartCopy(p) ==
  \E w \in KnownIds, u \in Users :
    Begin(p, [NoCall EXCEPT !.op = "copy", !.wishId = w, !.user = u], "copy_find")

\* A step inside the try block threw e: control goes to the catch clause.
Catch(p, e, absent) ==
  /\ local' = [local EXCEPT ![p].err = e, ![p].sawAbsent = @ \/ absent]
  /\ pc' = [pc EXCEPT ![p] = "copy_rollback"]

\* queryRunner.rollbackTransaction(): undoes the writes made through the
\* query runner's own connection.  copy makes every one of its reads and
\* writes through this.wishRepository, which works on the data source's
\* connections and commits each statement as it is made, so the query
\* runner's transaction holds no statement of copy and the table stays.
rollbackTransaction(s) == s

\* const originalWish = await findOne(...); NotFound if absent; otherwise
\* createQueryRunner() and the call of connect().
CopyFind(p) ==
  /\ pc[p] = "copy_find"
  /\ IF findOne(store, call[p].wishId) = NULL
     THEN /\ Finish(p, "NotFound")
          /\ local' = [local EXCEPT ![p].sawAbsent = TRUE]
          /\ UNCHANGED qr
     ELSE /\ pc' = [pc EXCEPT ![p] = "copy_connect"]
          /\ qr' = [qr EXCEPT ![p].created = TRUE]
          /\ UNCHANGED <<result, local>>
  /\ UNCHANGED <<store, nextId, call, pre, copyOk, calls, overlap>>

\* await queryRunner.connect(): outside the try block, a failure leaves copy.
CopyConnect(p) ==
  /\ pc[p] = "copy_connect"
  /\ \/ /\ pc' = [pc EXCEPT ![p] = "copy_start"]
        /\ UNCHANGED <<result, local>>
     \/ /\ Finish(p, "StoreError")
        /\ UNCHANGED local
  /\ UNCHANGED <<store, nextId, call, qr, pre, copyOk, calls, overlap>>

\* await queryRunner.startTransaction(): outside the try block as well.
CopyStartTransaction(p) ==
  /\ pc[p] = "copy_start"
  /\ \/ /\ pc' = [pc EXCEPT ![p] = "copy_reread"]
        /\ qr' = [qr EXCEPT ![p].active = TRUE]
        /\ UNCHANGED <<result, local>>
     \/ /\ Finish(p, "StoreError")
        /\ UNCHANGED <<local, qr>>
  /\ UNCHANGED <<store, nextId, call, pre, copyOk, calls, overlap>>

\* const {id, ..., copied, ..., ...wishData} = await findOneBy({id: wishId}):
\* destructuring null throws a TypeError.
CopyReread(p) ==
  /\ pc[p] = "copy_reread"
  /\ \/ LET w == findOne(store, call[p].wishId) IN
          IF w = NULL
          THEN Catch(p, "TypeError", TRUE)
          ELSE /\ local' = [local EXCEPT ![p].copied = w.copied, ![p].data = WishData(w)]
               /\ pc' = [pc EXCEPT ![p] = "copy_incr"]
     \/ Catch(p, "StoreError", FALSE)
  /\ UNCHANGED <<store, nextId, call, result, qr, pre, copyOk, calls, overlap>>

\* await this.wishRepository.update(wishId, { copied: copied + 1 })
CopyIncrement(p) ==
  /\ pc[p] = "copy_incr"
  /\ \/ /\ store' = RepoUpdate(store, call[p].wishId, CopiedPatch(local[p].copied))
        /\ pc' = [pc EXCEPT ![p] = "copy_create"]
        /\ UNCHANGED local
     \/ /\ Catch(p, "StoreError", FALSE)
        /\ UNCHANGED store
  /\ UNCHANGED <<nextId, call, result, qr, pre, copyOk, calls, overlap>>

\* const newWish = await this.create(wishData, user)
CopyCreate(p) ==
  /\ pc[p] = "copy_create"
  /\ \/ /\ CanInsert
        /\ store' = RepoSave(store, nextId, WithOwner(local[p].data, call[p].user))
        /\ nextId' = nextId + 1
        /\ local' = [local EXCEPT ![p].newId = nextId]
        /\ pc' = [pc EXCEPT ![p] = "copy_findnew"]
     \/ /\ Catch(p, "StoreError", FALSE)
        /\ UNCHANGED <<store, nextId>>
  /\ UNCHANGED <<call, result, qr, pre, copyOk, calls, overlap>>

\* const savedWish = await findOne({id: newWish.id}); NotFound if absent
CopyFindNew(p) ==
  /\ pc[p] = "copy_findnew"
  /\ \/ IF findOne(store, local[p].newId) = NULL
        THEN Catch(p, "NotFound", FALSE)
        ELSE /\ pc' = [pc EXCEPT ![p] = "copy_commit"]
             /\ UNCHANGED local
     \/ Catch(p, "StoreError", FALSE)
  /\ UNCHANGED <<store, nextId, call, result, qr, pre, copyOk, calls, overlap>>

\* await queryRunner.commitTransaction(); return savedWish.toJSON()
CopyCommit(p) ==
  /\ pc[p] = "copy_commit"
  /\ \/ /\ qr' = [qr EXCEPT ![p].active = FALSE]
        /\ pc' = [pc EXCEPT ![p] = "copy_release"]
        /\ UNCHANGED local
     \/ /\ Catch(p, "StoreError", FALSE)
        /\ UNCHANGED qr
  /\ UNCHANGED <<store, nextId, call, result, pre, copyOk, calls, overlap>>

\* catch (err) { await queryRunner.rollbackTransaction(); throw err; }
\* A failing rollback throws its own error in place of err.
CopyRollback(p) ==
  /\ pc[p] = "copy_rollback"
  /\ \/ /\ store' = rollbackTransaction(store)
        /\ qr' = [qr EXCEPT ![p].active = FALSE]
        /\ UNCHANGED local
     \/ /\ local' = [local EXCEPT ![p].err = "StoreError"]
        /\ UNCHANGED <<store, qr>>
  /\ pc' = [pc EXCEPT ![p] = "copy_release"]
  /\ UNCHANGED <<nextId, call, result, pre, copyOk, calls, overlap>>

\* finally { await queryRunner.release(); }, then the pending return or throw.
\* A failing release throws its own error in place of the pending outcome.
CopyRelease(p) ==
  /\ pc[p] = "copy_release"
  /\ qr' = [qr EXCEPT ![p].released = @ + 1]
  /\ \/ /\ Finish(p, IF local[p].err = "none" THEN "ok" ELSE local[p].err)
        /\ copyOk' = [copyOk EXCEPT ![call[p].wishId] =
                        IF local[p].err = "none" THEN @ + 1 ELSE @]
     \/ /\ Finish(p, "StoreError")
        /\ UNCHANGED copyOk
  /\ UNCHANGED <<store, nextId, call, local, pre, calls, overlap>>

\* -------------------------------------------------------------------- end
\* The caller has the outcome; the task is free for the next call.
Return(p) ==
  /\ pc[p] = "done"
  /\ pc' = [pc EXCEPT ![p] = "idle"]
  /\ call' = [call EXCEPT ![p] = NoCall]
  /\ local' = [local EXCEPT ![p] = NoLocal]
  /\ result' = [result EXCEPT ![p] = "none"]
  /\ qr' = [qr EXCEPT ![p] = NoQr]
  /\ pre' = [pre EXCEPT ![p] = NoSnapshot]
  /\ UNCHANGED <<store, nextId, copyOk, calls, overlap>>

Step(p) ==
  \/ StartCreate(p) \/ CreateSave(p)
  \/ StartUpdate(p) \/ UpdateFind(p) \/ UpdateWrite(p) \/ UpdateReread(p)
  \/ StartRemove(p) \/ RemoveFind(p) \/ RemoveDelete(p)
  \/ StartUpdateRaised(p) \/ RaisedWrite(p) \/ RaisedReread(p)
  \/ StartCopy(p) \/ CopyFind(p) \/ CopyConnect(p) \/ CopyStartTransaction(p)
  \/ CopyReread(p) \/ CopyIncrement(p) \/ CopyCreate(p) \/ CopyFindNew(p)
  \/ CopyCommit(p) \/ CopyRollback(p) \/ CopyRelease(p)
  \/ Return(p)

Next == \E p \in Tasks : Step(p)

Spec == Init /\ [][Next]_vars

SeqSpec == SeqInit /\ [][Next]_vars

\* ------------------------------------------------------------- properties
\* Task p has finished a call of op and its outcome is there to be seen.
Done(p, op) == pc[p] = "done" /\ call[p].op = op

\* The same, for a call that ran with no other call in flight.
DoneAlone(p, op) == Done(p, op) /\ pre[p] # NoSnapshot

\* C3: an owner's update that runs alone is rejected with CannotChangePrice,
\* leaving the table as it was, exactly when the patch carries a price other
\* than the stored one and the stored raised is above 0; with raised 0 it
\* succeeds and stores the patch's price; a patch without a price, or with
\* the stored price, is never rejected with CannotChangePrice.
UpdatePriceLock ==
  \A p \in Tasks :
    (DoneAlone(p, "update") /\ pre[p][call[p].wishId] # NULL
       /\ pre[p][call[p].wishId].owner = call[p].user) =>
      LET w == pre[p][call[p].wishId]
          dto == call[p].dto
          changes == "price" \in DOMAIN dto /\ dto.price # w.price
      IN /\ (changes /\ w.raised > 0) =>
              (result[p] = "CannotChangePrice" /\ store = pre[p])
         /\ (changes /\ w.raised = 0) =>
              (result[p] = "ok" /\ store[call[p].wishId].price = dto.price)
         /\ ~changes => result[p] # "CannotChangePrice"

\* C3 witness: an owner's price change on a wish with contributions, rejected.
UpdatePriceLockWitness ==
  \E p \in Tasks :
    /\ DoneAlone(p, "update") /\ pre[p][call[p].wishId] # NULL
    /\ pre[p][call[p].wishId].owner = call[p].user
    /\ pre[p][call[p].wishId].raised > 0
    /\ "price" \in DOMAIN call[p].dto
    /\ call[p].dto.price # pre[p][call[p].wishId].price
    /\ result[p] = "CannotChangePrice"

\* C4: update and remove by anyone but the owner fail with NotOwner and leave
\* the table as it was, also when the patch changes the price of a wish with
\* contributions.
NonOwnerRejected ==
  \A p \in Tasks :
    ((DoneAlone(p, "update") \/ DoneAlone(p, "remove"))
       /\ pre[p][call[p].wishId] # NULL
       /\ pre[p][call[p].wishId].owner # call[p].user) =>
      (result[p] = "NotOwner" /\ store = pre[p])

NonOwnerRejectedWitness ==
  \E p \in Tasks :
    /\ DoneAlone(p, "update") /\ pre[p][call[p].wishId] # NULL
    /\ pre[p][call[p].wishId].owner # call[p].user
    /\ pre[p][call[p].wishId].raised > 0
    /\ "price" \in DOMAIN call[p].dto
    /\ call[p].dto.price # pre[p][call[p].wishId].price
    /\ result[p] = "NotOwner"

\* C5: a copy that runs alone and succeeds adds exactly one wish, under an id
\* that was not in the table, owned by the copying user, with the source's
\* title, description, link, image and price, raised 0 and copied 0; the
\* source's copied grows by exactly 1 and nothing else changes.
CopyDuplicates ==
  \A p \in Tasks :
    (DoneAlone(p, "copy") /\ result[p] = "ok") =>
      LET a == call[p].wishId
          A == pre[p][a]
          added == {i \in WishIds : pre[p][i] = NULL /\ store[i] # NULL}
      IN /\ A # NULL
         /\ \E b \in WishIds :
              /\ added = {b}
              /\ store[b] = [id |-> b, owner |-> call[p].user, title |-> A.title,
                             description |-> A.description, link |-> A.link,
                             image |-> A.image, price |-> A.price,
                             raised |-> 0, copied |-> 0]
              /\ store[a] = [A EXCEPT !.copied = A.copied + 1]
              /\ \A i \in WishIds \ {a, b} : store[i] = pre[p][i]

\* C5 witness: a successful copy, by another user, of a wish that had
\* contributions and had been copied before.
CopyDuplicatesWitness ==
  \E p \in Tasks :
    /\ DoneAlone(p, "copy") /\ result[p] = "ok"
    /\ pre[p][call[p].wishId].owner # call[p].user
    /\ pre[p][call[p].wishId].raised > 0
    /\ pre[p][call[p].wishId].copied > 0

\* C9: updateRaised that runs alone sets raised of an existing wish to the
\* amount given, whatever it was, changes nothing else and succeeds; for an
\* id that is not in the table it fails with NotFound and changes nothing.
UpdateRaisedSets ==
  \A p \in Tasks :
    DoneAlone(p, "updateRaised") =>
      LET id == call[p].wishId IN
        IF pre[p][id] # NULL
        THEN /\ result[p] = "ok"
             /\ store = [pre[p] EXCEPT ![id] = [@ EXCEPT !.raised = call[p].amount]]
        ELSE /\ result[p] = "NotFound"
             /\ store = pre[p]

\* C9 witness: raised was above 0 and is set to the amount, not added to.
UpdateRaisedSetsWitness ==
  \E p \in Tasks :
    /\ DoneAlone(p, "updateRaised")
    /\ pre[p][call[p].wishId] # NULL
    /\ pre[p][call[p].wishId].raised > 0
    /\ call[p].amount > 0
    /\ store[call[p].wishId].raised = call[p].amount

\* C9, second case reached: an id that is not in the table is answered
\* with NotFound.
UpdateRaisedAbsentWitness ==
  \E p \in Tasks :
    /\ DoneAlone(p, "updateRaised")
    /\ pre[p][call[p].wishId] = NULL
    /\ result[p] = "NotFound"

\* C1: a copy that runs alone and ends in an error leaves the table as it
\* was when the copy started: no counter incremented, no wish added.
CopyAtomicOnFailure ==
  \A p \in Tasks :
    (DoneAlone(p, "copy") /\ result[p] # "ok") => store = pre[p]

\* C2: no step changes the stored price of a wish whose stored raised is
\* above 0 when the step is taken.
PriceLockedOnceRaised ==
  [][\A w \in WishIds :
       (store[w] # NULL /\ store'[w] # NULL /\ store[w].raised > 0) =>
         store'[w].price = store[w].price]_vars

\* C6: once every call has finished, no increment is lost: the copied
\* counter of a wish is at least the number of copy calls on it that
\* succeeded (the table starts with copied = 0).
NoIncrementLost ==
  (\A p \in Tasks : pc[p] \in {"idle", "done"}) =>
    \A w \in WishIds : store[w] # NULL => store[w].copied >= copyOk[w]

\* C7: copied of an existing wish never decreases, and it changes only in
\* the counter write of a copy call made on that wish.
CopiedMonotone ==
  [][\A w \in WishIds :
       (store[w] # NULL /\ store'[w] # NULL /\ store'[w].copied # store[w].copied) =>
         /\ store'[w].copied > store[w].copied
         /\ \E p \in Tasks : /\ pc[p] = "copy_incr" /\ pc'[p] = "copy_create"
                             /\ call[p].wishId = w]_vars

\* C8: a copy that found its source absent at one of its reads, and met no
\* store failure, ends with NotFound.
CopyAbsentIsNotFound ==
  \A p \in Tasks :
    (Done(p, "copy") /\ local[p].sawAbsent /\ result[p] # "StoreError") =>
      result[p] = "NotFound"

\* C10: when copy has returned or thrown after creating its query runner,
\* release has been called on the query runner exactly once.
QueryRunnerReleased ==
  \A p \in Tasks :
    (Done(p, "copy") /\ qr[p].created) => qr[p].released = 1

====
